---- MODULE Spec2Model ----
(***************************************************************************)
(* Model of heic_converter.py: the batch conversion convert_heic_to_jpeg   *)
(* (path validation, output directory, enumeration, thread pool, result    *)
(* collection, summary) and the per-file task convert_single_heic.         *)
(*                                                                         *)
(* A path is a sequence of names relative to the resolved input path       *)
(* (<<>> is the input path itself).  A name is a record of its stem and    *)
(* of the characters of its extension (the part after the last dot).       *)
(* The filesystem fs maps every existing path to its entry.                *)
(***************************************************************************)
EXTENDS Integers, Sequences, FiniteSets, TLC

VARIABLES
    fs,           \* the filesystem below (and including) the input path
    fs0,          \* fs as it was when the current call began
    pc,           \* position of convert_heic_to_jpeg
    heic_files,   \* list built at line 112
    max_workers,  \* pool size chosen at line 120 (0: no pool was started)
    st,           \* st[i]: position of the task of heic_files[i]
    outcome,      \* outcome[i]: the tuple returned by task i
    results,      \* the list collected at lines 124-127
    summary,      \* the numbers of the final report, lines 130-143
    run,          \* number of the current call of convert_heic_to_jpeg
    prevEnum,     \* the files the previous call enumerated
    prevOut,      \* the paths under the output directory after the previous call
    local         \* local[i]: the locals of task i (the exception e of line 85
                  \* and the progress of the mkdir of line 63)

vars == <<fs, fs0, pc, heic_files, max_workers, st, outcome, results, summary,
          run, prevEnum, prevOut, local>>

----------------------------------------------------------------------------
(* Bounds *)

\* most entries with a matching name in the tree a behaviour starts from
MaxFiles == 2

----------------------------------------------------------------------------
(* Names, paths and entries *)

Name(s, e) == [stem |-> s, ext |-> e]

NoExt == <<>>
heic == <<"h", "e", "i", "c">>
HEIC == <<"H", "E", "I", "C">>
HeIc == <<"H", "e", "I", "c">>
txt == <<"t", "x", "t">>

\* the extension written at line 68
jpg == <<"j", "p", "g">>

\* output_folder, the plain relative name read at line 169
output_folder == Name("Out", NoExt)

\* input_dir, line 102: the resolved input path
input_dir == <<>>

\* output_dir, line 108
output_dir == input_dir \o <<output_folder>>

Parent(p) == SubSeq(p, 1, Len(p) - 1)

Last(p) == p[Len(p)]

Prefixes(p) == {SubSeq(p, 1, k) : k \in 0..Len(p)}

Under(p, d) == Len(p) >= Len(d) /\ SubSeq(p, 1, Len(d)) = d

DirEntry == [kind |-> "dir", fault |-> "none", printable |-> TRUE, from |-> <<>>]

\* a file that was in the tree before the call: fault is the step of the
\* conversion that fails on it, printable tells whether a line holding its
\* name can be written to stdout
SrcEntry(flt, prt) == [kind |-> "file", fault |-> flt, printable |-> prt, from |-> <<>>]

\* an output file: from holds its blocks in order, each named by the source
\* file whose encoder wrote it (<<>>: a block no writer filled)
FileEntry(blocks) == [kind |-> "file", fault |-> "none", printable |-> TRUE, from |-> blocks]

\* the blocks of the complete output of the source file src
JpegData(src) == <<src, src>>

\* a file written by line 74 from the source file src
JpegEntry(src) == FileEntry(JpegData(src))

Exists(f, p) == p \in DOMAIN f

IsDir(f, p) == p \in DOMAIN f /\ f[p].kind = "dir"

EmptyFS == [p \in {} |-> DirEntry]

----------------------------------------------------------------------------
(* The library calls the program makes, as functions of the filesystem *)

\* the character classes of the pattern '*.[Hh][Ee][Ii][Cc]' of line 112
PatternClasses == << {"H", "h"}, {"E", "e"}, {"I", "i"}, {"C", "c"} >>

\* fnmatch of a name against '*.[Hh][Ee][Ii][Cc]': a dot followed by exactly
\* one character of each class, at the end of the name
Matches(n) ==
    /\ Len(n.ext) = Len(PatternClasses)
    /\ \A i \in 1..Len(PatternClasses) : n.ext[i] \in PatternClasses[i]

\* an enumeration that leaves out what lies in the output directory
RglobMutant(f) ==
    {p \in DOMAIN f : /\ Under(p, input_dir) /\ Len(p) > Len(input_dir) /\ Matches(Last(p))
                      /\ ~Under(p, output_dir)}

\* input_dir.rglob(pattern): every entry below input_dir, of any kind, whose
\* name matches
Rglob(f) == {p \in DOMAIN f : Under(p, input_dir) /\ Len(p) > Len(input_dir) /\ Matches(Last(p))}

\* line 103 without its test: every input path is taken to exist
InputExistsMutant(f) == TRUE

\* input_dir.exists(), line 103
InputExists(f) == Exists(f, input_dir)

\* line 113 without its test: the list is never taken to be empty
NoneFoundMutant(files) == FALSE

\* the test of line 113
NoneFound(files) == files = <<>>

\* Path.mkdir(parents=True, exist_ok=True) raises when the path or one of its
\* ancestors exists and is no directory
MkdirFails(f, d) == \E q \in Prefixes(d) : Exists(f, q) /\ f[q].kind # "dir"

\* the filesystem after Path.mkdir(parents=True, exist_ok=True) succeeded
MkdirP(f, d) == [p \in DOMAIN f \cup Prefixes(d) |-> IF Exists(f, p) THEN f[p] ELSE DirEntry]

\* line 63 called with exist_ok=False
exist_okMutant == FALSE

\* the argument exist_ok of line 63
exist_ok == TRUE

\* one call os.mkdir(d), the system call Path.mkdir is built on: "made" when
\* it creates d, else the error it raises
OsMkdir(f, d) ==
    IF Exists(f, d) THEN "FileExistsError"
    ELSE IF MkdirFails(f, Parent(d)) THEN "NotADirectoryError"
    ELSE IF ~Exists(f, Parent(d)) THEN "FileNotFoundError"
    ELSE "made"

\* the directory d made by os.mkdir
MakeDir(f, d) == [p \in DOMAIN f \cup {d} |-> IF p = d THEN DirEntry ELSE f[p]]

\* heic_file.relative_to(input_dir).parent, line 61
RelativeParent(file) == Parent(SubSeq(file, Len(input_dir) + 1, Len(file)))

\* line 62 with input_dir for output_dir: the target lies beside the source
TargetDirMutant(file) == input_dir \o RelativeParent(file)

\* target_dir, line 62
TargetDir(file) == output_dir \o RelativeParent(file)

\* the output path with the name of the source file kept as it is
JpegPathMutant(file) == TargetDir(file) \o <<Last(file)>>

\* jpeg_path, line 68
JpegPath(file) == TargetDir(file) \o <<Name(Last(file).stem, jpg)>>

\* Image.open(heic_file), line 66
OpenFails(f, file) == ~Exists(f, file) \/ f[file].kind = "dir" \/ f[file].fault = "decode"

\* img.convert('RGB') and rgb_img.save(jpeg_path, ...), lines 71-80: a fault
\* of the conversion or of the write is taken to strike before a byte is
\* written
SaveFails(f, file) == f[file].fault = "save" \/ IsDir(f, JpegPath(file)) \/ ~IsDir(f, TargetDir(file))

\* the filesystem after rgb_img.save succeeded
WriteJpeg(f, file) ==
    [p \in DOMAIN f \cup {JpegPath(file)} |-> IF p = JpegPath(file) THEN JpegEntry(file) ELSE f[p]]

\* Image.save opens jpeg_path for writing: the file is created, or cut to
\* length zero when it exists
OpenTruncate(f, file) ==
    [p \in DOMAIN f \cup {JpegPath(file)} |-> IF p = JpegPath(file) THEN FileEntry(<<>>) ELSE f[p]]

\* the encoder of the task of file writes block k of its output at its own
\* position of the open file; a block before it that nobody wrote stays empty
WriteBlock(f, file, k) ==
    LET old == f[JpegPath(file)].from
        gap == [j \in 1..(k - 1 - Len(old)) |-> <<>>]
    IN  [f EXCEPT ![JpegPath(file)] =
            FileEntry(IF Len(old) >= k THEN [old EXCEPT ![k] = file] ELSE old \o gap \o <<file>>)]

\* print_color of a line holding heic_file.name, lines 82 and 86: print
\* raises UnicodeEncodeError when stdout cannot encode the name
PrintFails(f, file) == ~f[file].printable

\* the limit and the fallback of line 120
PoolCap == 32
FallbackCores == 4

Min(a, b) == IF a < b THEN a ELSE b

\* the core count taken as the pool size, without the cap
PoolSizeMutant(c) == IF c = 0 THEN FallbackCores ELSE c

\* min(32, os.cpu_count() or 4), line 120; c = 0 stands for None
PoolSize(c) == Min(PoolCap, IF c = 0 THEN FallbackCores ELSE c)

\* str(e) of the exception caught at line 85, by the step that raised it
NoError == "none"
MkdirError == "FileExistsError"
OpenError == "cannot identify image file"
SaveError == "cannot write file"
PrintError == "UnicodeEncodeError"

\* the locals of a task that is to make the directory d: no exception caught,
\* and mkdir(parents=True) about to try d itself
Locals(d) == [e |-> NoError, depth |-> Len(d), parents |-> TRUE]

\* a tuple that names the file to be written in place of the source file
OutcomeMutant(ok, file) == [success |-> ok, name |-> Name(Last(file).stem, jpg)]

\* (success, heic_file.name), lines 83 and 87
Outcome(ok, file) == [success |-> ok, name |-> Last(file)]

Range(s) == {s[i] : i \in DOMAIN s}

\* the orders in which rglob may yield a set of paths
Orders(S) == {s \in [1..Cardinality(S) -> S] : Range(s) = S}

\* sum(1 for success, _ in results if success), line 130
Converted(res) == Cardinality({i \in DOMAIN res : res[i].success})

\* the paths below the output directory
OutPaths(f) == {p \in DOMAIN f : Under(p, output_dir)}

----------------------------------------------------------------------------
(* The trees a behaviour starts from *)

CandidateDirs ==
    { <<Name("A", NoExt)>>,
      <<Name("d", heic)>>,
      output_dir }

CandidateFiles ==
    { <<Name("a", heic)>>,
      <<Name("a", HEIC)>>,
      <<Name("c", txt)>>,
      <<Name("A", NoExt), Name("p", HeIc)>>,
      <<Name("d", heic), Name("q", heic)>>,
      output_dir \o <<Name("x", heic)>>,
      output_dir \o <<Name("A", NoExt)>> }

\* what a source file may be: the step of the conversion that fails on it
\* ("none": the file converts) and whether its name can be printed
Flavors ==
    { <<"none", TRUE>>, <<"decode", TRUE>>, <<"save", TRUE>>,
      <<"none", FALSE>>, <<"decode", FALSE>> }

MatchingIn(T) == {p \in T : Matches(Last(p))}

\* a tree holds c.txt, at most MaxFiles entries with a matching name, the
\* directories these lie in and, only beside A/p.HeIc, the file Out/A that
\* stands where the target directory of A/p.HeIc is to be made
Trees ==
    {T \in SUBSET (CandidateDirs \cup CandidateFiles) :
        /\ <<Name("c", txt)>> \in T
        /\ output_dir \o <<Name("A", NoExt)>> \in T => <<Name("A", NoExt), Name("p", HeIc)>> \in T
        /\ \A p \in T : Len(p) > 1 => Parent(p) \in T
        /\ \A d \in T \cap CandidateDirs : Matches(Last(d)) \/ \E p \in T : Len(p) > 1 /\ Parent(p) = d
        /\ Cardinality(MatchingIn(T)) <= MaxFiles}

Sources(T) == MatchingIn(T) \cap CandidateFiles

TreeFS(T, flv) ==
    [p \in T \cup {input_dir} |->
        IF p \in Sources(T) THEN SrcEntry(flv[p][1], flv[p][2])
        ELSE IF p \in CandidateFiles THEN SrcEntry("none", TRUE)
        ELSE DirEntry]

\* the input path is a regular file
FileFS == [p \in {input_dir} |-> SrcEntry("none", TRUE)]

\* the values of os.cpu_count(); 0 stands for None
CpuCounts == {0, 1, 64}

Terminal == {"notfound", "empty", "done", "raised"}

Init ==
    /\ \/ fs = EmptyFS
       \/ fs = FileFS
       \/ \E T \in Trees : \E flv \in [Sources(T) -> Flavors] : fs = TreeFS(T, flv)
    /\ fs0 = fs
    /\ pc = "validate"
    /\ heic_files = <<>>
    /\ max_workers = 0
    /\ st = <<>>
    /\ outcome = <<>>
    /\ results = <<>>
    /\ summary = [found |-> 0, converted |-> 0, errors |-> 0]
    /\ run = 1
    /\ prevEnum = {}
    /\ prevOut = {}
    /\ local = <<>>

----------------------------------------------------------------------------
(* convert_heic_to_jpeg *)

\* lines 102-105: the input path does not exist
NotFound ==
    /\ pc = "validate"
    /\ ~InputExists(fs)
    /\ pc' = "notfound"
    /\ UNCHANGED <<fs, fs0, heic_files, max_workers, st, outcome, results, summary,
                   run, prevEnum, prevOut, local>>

\* lines 102-103: the input path exists
Validate ==
    /\ pc = "validate"
    /\ InputExists(fs)
    /\ pc' = "mkdir"
    /\ UNCHANGED <<fs, fs0, heic_files, max_workers, st, outcome, results, summary,
                   run, prevEnum, prevOut, local>>

\* lines 108-109: output_dir.mkdir(parents=True, exist_ok=True)
MakeOutputDir ==
    /\ pc = "mkdir"
    /\ ~MkdirFails(fs, output_dir)
    /\ fs' = MkdirP(fs, output_dir)
    /\ pc' = "enumerate"
    /\ UNCHANGED <<fs0, heic_files, max_workers, st, outcome, results, summary,
                   run, prevEnum, prevOut, local>>

\* line 109 raises: the exception leaves convert_heic_to_jpeg
MakeOutputDirRaises ==
    /\ pc = "mkdir"
    /\ MkdirFails(fs, output_dir)
    /\ pc' = "raised"
    /\ UNCHANGED <<fs, fs0, heic_files, max_workers, st, outcome, results, summary,
                   run, prevEnum, prevOut, local>>

\* line 112
Enumerate ==
    /\ pc = "enumerate"
    /\ \E order \in Orders(Rglob(fs)) : heic_files' = order
    /\ pc' = "found"
    /\ UNCHANGED <<fs, fs0, max_workers, st, outcome, results, summary,
                   run, prevEnum, prevOut, local>>

\* lines 113-115
Empty ==
    /\ pc = "found"
    /\ NoneFound(heic_files)
    /\ pc' = "empty"
    /\ UNCHANGED <<fs, fs0, heic_files, max_workers, st, outcome, results, summary,
                   run, prevEnum, prevOut, local>>

\* lines 117-126: the pool is created and executor.map submits one future
\* for every element of heic_files
StartPool ==
    /\ pc = "found"
    /\ ~NoneFound(heic_files)
    /\ \E c \in CpuCounts : max_workers' = PoolSize(c)
    /\ st' = [i \in 1..Len(heic_files) |-> "pending"]
    /\ outcome' = [i \in 1..Len(heic_files) |-> Outcome(FALSE, heic_files[i])]
    /\ pc' = "collect"
    /\ local' = [i \in 1..Len(heic_files) |-> Locals(TargetDir(heic_files[i]))]
    /\ UNCHANGED <<fs, fs0, heic_files, results, summary, run, prevEnum, prevOut>>

----------------------------------------------------------------------------
(* The worker threads: convert_single_heic on heic_files[i] *)

Active == {"mkdir", "open", "save", "write_head", "write_tail", "print", "except"}

Running == {i \in DOMAIN st : st[i] \in Active}

\* an idle worker takes the oldest future of the queue; the pool has at most
\* max_workers threads
TaskStart(i) ==
    /\ pc \in {"collect", "unwinding"}
    /\ st[i] = "pending"
    /\ \A j \in 1..(i - 1) : st[j] # "pending"
    /\ Cardinality(Running) < max_workers
    /\ st' = [st EXCEPT ![i] = "mkdir"]
    /\ UNCHANGED <<fs, fs0, pc, heic_files, max_workers, outcome, results, summary,
                   run, prevEnum, prevOut, local>>

\* lines 61-63
TaskMkdir(i) ==
    /\ st[i] = "mkdir"
    /\ IF MkdirFails(fs, TargetDir(heic_files[i]))
       THEN /\ st' = [st EXCEPT ![i] = "except"]
            /\ fs' = fs
            /\ local' = [local EXCEPT ![i].e = MkdirError]
       ELSE /\ st' = [st EXCEPT ![i] = "open"]
            /\ fs' = MkdirP(fs, TargetDir(heic_files[i]))
            /\ local' = local
    /\ UNCHANGED <<fs0, pc, heic_files, max_workers, outcome, results, summary,
                   run, prevEnum, prevOut>>

\* line 63, one system call at a time: Path.mkdir tries os.mkdir on the
\* path; on FileNotFoundError, with parents, it calls itself on the parent
\* (parents=True, exist_ok=True) and then tries the path again with
\* parents=False; on any other error it raises unless exist_ok holds and the
\* path is a directory.  local[i].depth is the length of the path the next
\* os.mkdir is tried on.
TaskMkdirTry(i) ==
    /\ st[i] = "mkdir"
    /\ LET target == TargetDir(heic_files[i])
           d == SubSeq(target, 1, local[i].depth)
           r == OsMkdir(fs, d)
           top == local[i].depth = Len(target)
           tolerated == (top => exist_ok) /\ IsDir(fs, d)
           made == r = "made" \/ (r = "FileExistsError" /\ tolerated)
           descend == r = "FileNotFoundError" /\ local[i].parents
       IN  /\ fs' = IF r = "made" THEN MakeDir(fs, d) ELSE fs
           /\ st' = [st EXCEPT ![i] = IF made /\ top THEN "open"
                                      ELSE IF made \/ descend THEN "mkdir"
                                      ELSE "except"]
           /\ local' = [local EXCEPT ![i] =
                  IF made /\ top THEN @
                  ELSE IF made THEN [@ EXCEPT !.depth = @ + 1, !.parents = FALSE]
                  ELSE IF descend THEN [@ EXCEPT !.depth = @ - 1]
                  ELSE [@ EXCEPT !.e = MkdirError]]
    /\ UNCHANGED <<fs0, pc, heic_files, max_workers, outcome, results, summary,
                   run, prevEnum, prevOut>>

\* line 66
TaskOpen(i) ==
    /\ st[i] = "open"
    /\ IF OpenFails(fs, heic_files[i])
       THEN /\ st' = [st EXCEPT ![i] = "except"]
            /\ local' = [local EXCEPT ![i].e = OpenError]
       ELSE /\ st' = [st EXCEPT ![i] = "save"]
            /\ local' = local
    /\ UNCHANGED <<fs, fs0, pc, heic_files, max_workers, outcome, results, summary,
                   run, prevEnum, prevOut>>

\* lines 68-80
TaskSave(i) ==
    /\ st[i] = "save"
    /\ IF SaveFails(fs, heic_files[i])
       THEN /\ st' = [st EXCEPT ![i] = "except"]
            /\ fs' = fs
            /\ local' = [local EXCEPT ![i].e = SaveError]
       ELSE /\ st' = [st EXCEPT ![i] = "print"]
            /\ fs' = WriteJpeg(fs, heic_files[i])
            /\ local' = local
    /\ UNCHANGED <<fs0, pc, heic_files, max_workers, outcome, results, summary,
                   run, prevEnum, prevOut>>

\* lines 68-80, one system call at a time: Image.save opens jpeg_path for
\* writing, then the encoder's output goes to the file in blocks; no lock
\* is held and no temporary file is renamed
TaskSaveOpen(i) ==
    /\ st[i] = "save"
    /\ IF SaveFails(fs, heic_files[i])
       THEN /\ st' = [st EXCEPT ![i] = "except"]
            /\ fs' = fs
            /\ local' = [local EXCEPT ![i].e = SaveError]
       ELSE /\ st' = [st EXCEPT ![i] = "write_head"]
            /\ fs' = OpenTruncate(fs, heic_files[i])
            /\ local' = local
    /\ UNCHANGED <<fs0, pc, heic_files, max_workers, outcome, results, summary,
                   run, prevEnum, prevOut>>

TaskWriteHead(i) ==
    /\ st[i] = "write_head"
    /\ fs' = WriteBlock(fs, heic_files[i], 1)
    /\ st' = [st EXCEPT ![i] = "write_tail"]
    /\ UNCHANGED <<fs0, pc, heic_files, max_workers, outcome, results, summary,
                   run, prevEnum, prevOut, local>>

TaskWriteTail(i) ==
    /\ st[i] = "write_tail"
    /\ fs' = WriteBlock(fs, heic_files[i], 2)
    /\ st' = [st EXCEPT ![i] = "print"]
    /\ UNCHANGED <<fs0, pc, heic_files, max_workers, outcome, results, summary,
                   run, prevEnum, prevOut, local>>

\* lines 82-83: the status line is printed inside the try block
TaskPrint(i) ==
    /\ st[i] = "print"
    /\ IF PrintFails(fs, heic_files[i])
       THEN /\ st' = [st EXCEPT ![i] = "except"]
            /\ outcome' = outcome
            /\ local' = [local EXCEPT ![i].e = PrintError]
       ELSE /\ st' = [st EXCEPT ![i] = "returned"]
            /\ outcome' = [outcome EXCEPT ![i] = Outcome(TRUE, heic_files[i])]
            /\ local' = local
    /\ UNCHANGED <<fs, fs0, pc, heic_files, max_workers, results, summary,
                   run, prevEnum, prevOut>>

\* the position of task i after the handler's print_color raised, line 86:
\* nothing encloses the handler, so the exception leaves convert_single_heic
\* and is stored in the future
HandlerPrintRaises(i) == [st EXCEPT ![i] = "raised"]

\* lines 85-87: the handler prints its line, then returns
TaskExcept(i) ==
    /\ st[i] = "except"
    /\ IF PrintFails(fs, heic_files[i])
       THEN /\ st' = HandlerPrintRaises(i)
            /\ outcome' = outcome
       ELSE /\ st' = [st EXCEPT ![i] = "returned"]
            /\ outcome' = [outcome EXCEPT ![i] = Outcome(FALSE, heic_files[i])]
    /\ UNCHANGED <<fs, fs0, pc, heic_files, max_workers, results, summary,
                   run, prevEnum, prevOut, local>>

----------------------------------------------------------------------------
(* The main thread while the pool runs, and the report *)

\* the outcome taken next put at the front of the list
CollectMutant ==
    /\ pc = "collect"
    /\ Len(results) < Len(heic_files)
    /\ st[Len(results) + 1] = "returned"
    /\ results' = <<outcome[Len(results) + 1]>> \o results
    /\ UNCHANGED <<fs, fs0, pc, heic_files, max_workers, st, outcome, summary,
                   run, prevEnum, prevOut, local>>

\* list(executor.map(...)), lines 124-127: the results are taken in the order
\* of submission, each when its future is done
Collect ==
    /\ pc = "collect"
    /\ Len(results) < Len(heic_files)
    /\ st[Len(results) + 1] = "returned"
    /\ results' = Append(results, outcome[Len(results) + 1])
    /\ UNCHANGED <<fs, fs0, pc, heic_files, max_workers, st, outcome, summary,
                   run, prevEnum, prevOut, local>>

\* the result taken at line 124 is the exception stored in the future: it is
\* raised in the main thread, and executor.map cancels the futures not yet
\* taken off the list
CollectRaises ==
    /\ pc = "collect"
    /\ Len(results) < Len(heic_files)
    /\ st[Len(results) + 1] = "raised"
    /\ st' = [i \in DOMAIN st |->
                 IF i > Len(results) + 1 /\ st[i] = "pending" THEN "cancelled" ELSE st[i]]
    /\ pc' = "unwinding"
    /\ UNCHANGED <<fs, fs0, heic_files, max_workers, outcome, results, summary,
                   run, prevEnum, prevOut, local>>

\* line 123: leaving the with block waits for the running tasks; then the
\* exception leaves convert_heic_to_jpeg
Unwind ==
    /\ pc = "unwinding"
    /\ Running = {}
    /\ pc' = "raised"
    /\ UNCHANGED <<fs, fs0, heic_files, max_workers, st, outcome, results, summary,
                   run, prevEnum, prevOut, local>>

\* the report made without waiting for the outcomes still to come
ReportMutant ==
    /\ pc = "collect"
    /\ Len(results) <= Len(heic_files)
    /\ summary' = [found |-> Len(heic_files),
                   converted |-> Converted(results),
                   errors |-> Len(results) - Converted(results)]
    /\ pc' = "done"
    /\ UNCHANGED <<fs, fs0, heic_files, max_workers, st, outcome, results,
                   run, prevEnum, prevOut, local>>

\* lines 130-143
Report ==
    /\ pc = "collect"
    /\ Len(results) = Len(heic_files)
    /\ summary' = [found |-> Len(heic_files),
                   converted |-> Converted(results),
                   errors |-> Len(results) - Converted(results)]
    /\ pc' = "done"
    /\ UNCHANGED <<fs, fs0, heic_files, max_workers, st, outcome, results,
                   run, prevEnum, prevOut, local>>

\* line 172: convert_heic_to_jpeg is called again with the same arguments
Rerun ==
    /\ pc \in Terminal
    /\ run = 1
    /\ run' = run + 1
    /\ prevEnum' = Range(heic_files)
    /\ prevOut' = OutPaths(fs)
    /\ fs0' = fs
    /\ pc' = "validate"
    /\ heic_files' = <<>>
    /\ max_workers' = 0
    /\ st' = <<>>
    /\ outcome' = <<>>
    /\ results' = <<>>
    /\ summary' = [found |-> 0, converted |-> 0, errors |-> 0]
    /\ local' = <<>>
    /\ UNCHANGED fs

Next ==
    \/ NotFound
    \/ Validate
    \/ MakeOutputDir
    \/ MakeOutputDirRaises
    \/ Enumerate
    \/ Empty
    \/ StartPool
    \/ \E i \in DOMAIN st : TaskStart(i)
    \/ \E i \in DOMAIN st : TaskMkdir(i)
    \/ \E i \in DOMAIN st : TaskOpen(i)
    \/ \E i \in DOMAIN st : TaskSave(i)
    \/ \E i \in DOMAIN st : TaskPrint(i)
    \/ \E i \in DOMAIN st : TaskExcept(i)
    \/ Collect
    \/ CollectRaises
    \/ Unwind
    \/ Report

\* one call of convert_heic_to_jpeg
Spec == Init /\ [][Next]_vars

\* two calls in a row on the same tree
SpecTwice == Init /\ [][Next \/ Rerun]_vars

----------------------------------------------------------------------------
(* One call on trees with nested directories, the mkdir of line 63 taken one
   system call at a time *)

DeepDirs ==
    { <<Name("A", NoExt)>>,
      <<Name("A", NoExt), Name("B", NoExt)>>,
      output_dir }

DeepFiles ==
    { <<Name("c", txt)>>,
      <<Name("A", NoExt), Name("p", HeIc)>>,
      <<Name("A", NoExt), Name("B", NoExt), Name("r", heic)>>,
      <<Name("A", NoExt), Name("B", NoExt), Name("s", HEIC)>>,
      output_dir \o <<Name("A", NoExt)>> }

\* the files convert; the name of some cannot be printed
DeepFlavors == { <<"none", TRUE>>, <<"none", FALSE>> }

\* a tree holds c.txt, at most MaxFiles of the source files, the directories
\* these lie in and possibly the output directory, empty or with the file
\* Out/A that stands where the target directories are to be made
DeepTrees ==
    {T \in SUBSET (DeepDirs \cup DeepFiles) :
        /\ <<Name("c", txt)>> \in T
        /\ \A p \in T : Len(p) > 1 => Parent(p) \in T
        /\ \A d \in (T \cap DeepDirs) \ {output_dir} : \E p \in MatchingIn(T) : Under(p, d)
        /\ Cardinality(MatchingIn(T)) <= MaxFiles}

DeepFS(T, flv) ==
    [p \in T \cup {input_dir} |->
        IF p \in MatchingIn(T) THEN SrcEntry(flv[p][1], flv[p][2])
        ELSE IF p \in DeepFiles THEN SrcEntry("none", TRUE)
        ELSE DirEntry]

InitDeep ==
    /\ \/ fs = EmptyFS
       \/ fs = FileFS
       \/ \E T \in DeepTrees : \E flv \in [MatchingIn(T) -> DeepFlavors] : fs = DeepFS(T, flv)
    /\ fs0 = fs
    /\ pc = "validate"
    /\ heic_files = <<>>
    /\ max_workers = 0
    /\ st = <<>>
    /\ outcome = <<>>
    /\ results = <<>>
    /\ summary = [found |-> 0, converted |-> 0, errors |-> 0]
    /\ run = 1
    /\ prevEnum = {}
    /\ prevOut = {}
    /\ local = <<>>

NextMkdir ==
    \/ NotFound
    \/ Validate
    \/ MakeOutputDir
    \/ MakeOutputDirRaises
    \/ Enumerate
    \/ Empty
    \/ StartPool
    \/ \E i \in DOMAIN st : TaskStart(i)
    \/ \E i \in DOMAIN st : TaskMkdirTry(i)
    \/ \E i \in DOMAIN st : TaskOpen(i)
    \/ \E i \in DOMAIN st : TaskSave(i)
    \/ \E i \in DOMAIN st : TaskPrint(i)
    \/ \E i \in DOMAIN st : TaskExcept(i)
    \/ Collect
    \/ CollectRaises
    \/ Unwind
    \/ Report

SpecMkdir == InitDeep /\ [][NextMkdir]_vars

----------------------------------------------------------------------------
(* One call, the save of lines 74-80 taken one system call at a time *)

NextWrite ==
    \/ NotFound
    \/ Validate
    \/ MakeOutputDir
    \/ MakeOutputDirRaises
    \/ Enumerate
    \/ Empty
    \/ StartPool
    \/ \E i \in DOMAIN st : TaskStart(i)
    \/ \E i \in DOMAIN st : TaskMkdir(i)
    \/ \E i \in DOMAIN st : TaskOpen(i)
    \/ \E i \in DOMAIN st : TaskSaveOpen(i)
    \/ \E i \in DOMAIN st : TaskWriteHead(i)
    \/ \E i \in DOMAIN st : TaskWriteTail(i)
    \/ \E i \in DOMAIN st : TaskPrint(i)
    \/ \E i \in DOMAIN st : TaskExcept(i)
    \/ Collect
    \/ CollectRaises
    \/ Unwind
    \/ Report

SpecWrite == Init /\ [][NextWrite]_vars

----------------------------------------------------------------------------
(* One call under fair scheduling: the main thread and the pool's threads
   are threads of the operating system, so a step that can be taken is
   taken at last *)

SpecFair == InitDeep /\ [][Next]_vars /\ WF_vars(Next)

----------------------------------------------------------------------------
(* Properties *)

\* the batch has ended
Ended == pc \in Terminal

\* the input path was a directory when the call began
InputWasDir == input_dir \in DOMAIN fs0 /\ fs0[input_dir].kind = "dir"

Successes(res) == {i \in DOMAIN res : res[i].success}

Failures(res) == {i \in DOMAIN res : ~res[i].success}

\* C1: when a batch that enumerated at least one file has ended, the
\* dispatcher has collected exactly one outcome per enumerated file, in every
\* interleaving and for every pool size: as many outcomes as files, the i-th
\* carrying the name of the i-th file.
C1_OneOutcomePerFile ==
    (Ended /\ heic_files # <<>>) =>
        /\ Len(results) = Len(heic_files)
        /\ \A i \in DOMAIN results : results[i].name = Last(heic_files[i])

\* the enumerated entry i is a file that fails to decode
Corrupt(i) ==
    fs0[heic_files[i]].kind = "file" /\ fs0[heic_files[i]].fault = "decode"

\* the enumerated entry i is a file that converts, and whose name prints
Valid(i) ==
    /\ fs0[heic_files[i]].kind = "file"
    /\ fs0[heic_files[i]].fault = "none"
    /\ fs0[heic_files[i]].printable

\* C2: when exactly one enumerated file fails to decode and all the others
\* are valid, no task is ever cancelled, and the batch ends with the final
\* summary, a successful outcome for every valid file and exactly one failed
\* outcome, the corrupt file's.
C2_OneCorruptFileIsIsolated ==
    (/\ heic_files # <<>>
     /\ Cardinality({i \in DOMAIN heic_files : Corrupt(i)}) = 1
     /\ \A i \in DOMAIN heic_files : Corrupt(i) \/ Valid(i)) =>
        /\ \A i \in DOMAIN st : st[i] # "cancelled"
        /\ Ended =>
            /\ pc = "done"
            /\ Len(results) = Len(heic_files)
            /\ \A i \in DOMAIN results : results[i].success <=> Valid(i)
            /\ Cardinality(Failures(results)) = 1

\* C3: no call of convert_single_heic ends with an exception: whatever step
\* fails, the call returns an outcome.
C3_TaskNeverRaises == \A i \in DOMAIN st : st[i] # "raised"

\* C4: when the input path does not exist, the batch ends as not found with
\* nothing done: the filesystem is as it was (no output directory), nothing
\* was enumerated, no pool was started and no task exists.
C4_MissingInputNoSideEffect ==
    input_dir \notin DOMAIN fs0 =>
        /\ pc \in {"validate", "notfound"}
        /\ fs = fs0
        /\ heic_files = <<>>
        /\ max_workers = 0
        /\ st = <<>>
        /\ results = <<>>

C4_Witness == pc = "notfound" /\ input_dir \notin DOMAIN fs /\ fs = EmptyFS

\* C5: when the input path exists and is no directory, the batch ends with
\* the not-found outcome of a missing path.
C5_NotADirectoryIsNotFound ==
    (input_dir \in DOMAIN fs0 /\ fs0[input_dir].kind # "dir" /\ Ended) => pc = "notfound"

LowerChar(c) ==
    CASE c = "H" -> "h"
      [] c = "E" -> "e"
      [] c = "I" -> "i"
      [] c = "C" -> "c"
      [] OTHER -> c

\* the extension of the name is 'heic' in some mixture of letter case
HasHeicExtension(n) ==
    Len(n.ext) = Len(heic) /\ \A i \in 1..Len(heic) : LowerChar(n.ext[i]) = heic[i]

\* C6: the enumeration returns exactly the files below the input directory
\* whose extension is 'heic' in any letter case, each once, and nothing
\* else: no file with another extension and no directory.
C6_EnumeratesExactlyTheHeicFiles ==
    pc = "found" =>
        /\ Range(heic_files) =
              {p \in DOMAIN fs : Len(p) > 0 /\ fs[p].kind = "file" /\ HasHeicExtension(Last(p))}
        /\ Cardinality(Range(heic_files)) = Len(heic_files)

\* C7: a batch that enumerated at least one file ends with the final
\* summary, whose numbers are those of the collected outcomes: converted the
\* successes, errors the failures, and their sum the number of files found.
C7_SummaryFromOutcomes ==
    (Ended /\ heic_files # <<>>) =>
        /\ pc = "done"
        /\ summary.found = Len(heic_files)
        /\ summary.converted = Cardinality(Successes(results))
        /\ summary.errors = Cardinality(Failures(results))
        /\ summary.converted + summary.errors = summary.found

\* C8: after the second of two calls in a row on the same tree, the paths
\* under the output directory are those the first call left and the second
\* call enumerated what the first enumerated.  Stated for trees whose names
\* all print, where no call is cut short by an exception of a task.
C8_SecondRunChangesNothing ==
    (run = 2 /\ Ended /\ \A p \in DOMAIN fs : fs[p].printable) =>
        /\ OutPaths(fs) = prevOut
        /\ Range(heic_files) = prevEnum

\* C9: whatever the batch creates or writes lies under the output
\* directory: every path outside it exists exactly when it existed before
\* the call, with the entry it had.
C9_ChangesOnlyUnderOutput ==
    \A p \in DOMAIN fs \cup DOMAIN fs0 :
        ~Under(p, output_dir) => (p \in DOMAIN fs /\ p \in DOMAIN fs0 /\ fs[p] = fs0[p])

C9_Witness ==
    \E i \in DOMAIN st :
        /\ st[i] = "returned"
        /\ outcome[i].success
        /\ JpegPath(heic_files[i]) \in DOMAIN fs \ DOMAIN fs0
        /\ TargetDir(heic_files[i]) \in DOMAIN fs \ DOMAIN fs0
        /\ Len(TargetDir(heic_files[i])) > Len(output_dir)

\* C10: when no entry of the input directory matches, the batch ends as the
\* empty result and not as an error: nothing was found, no pool was started,
\* no task exists, and the filesystem differs from what it was by the output
\* directory alone.
C10_EmptyResult ==
    /\ (Ended /\ InputWasDir /\ Rglob(fs0) = {}) => pc = "empty"
    /\ pc = "empty" =>
        /\ heic_files = <<>>
        /\ summary.found = 0
        /\ max_workers = 0
        /\ st = <<>>
        /\ results = <<>>
        /\ DOMAIN fs = DOMAIN fs0 \cup {output_dir}
        /\ fs[output_dir].kind = "dir"
        /\ \A p \in DOMAIN fs0 : fs[p] = fs0[p]

C10_Witness == pc = "empty" /\ output_dir \notin DOMAIN fs0 /\ IsDir(fs, output_dir)

\* C11 as stated: every failed outcome carries, besides success = false and
\* the file's name, the message text of the exception the task caught.
C11_FailureCarriesErrorText ==
    \A i \in DOMAIN st :
        (st[i] = "returned" /\ ~outcome[i].success) =>
            /\ "detail" \in DOMAIN outcome[i]
            /\ outcome[i].detail = local[i].e

\* C11, amended: a task that caught an exception returns the pair (False,
\* name of the source file) and nothing else; the message text of the
\* exception is in the printed line only, not in the outcome.
C11_FailureCarriesNameOnly ==
    \A i \in DOMAIN st :
        (st[i] = "returned" /\ local[i].e # NoError) =>
            /\ DOMAIN outcome[i] = {"success", "name"}
            /\ ~outcome[i].success
            /\ outcome[i].name = Last(heic_files[i])

C11_Witness ==
    \E i \in DOMAIN results :
        /\ ~results[i].success
        /\ local[i].e = OpenError
        /\ results[i].name = Name("a", heic)

\* C12: when the batch has ended, an outcome reports success exactly for the
\* files whose conversion completed: the output file of every source with a
\* successful outcome exists, and every source whose output was written in
\* full has a successful outcome among the collected ones.
C12_SuccessIffWritten ==
    Ended =>
        /\ \A i \in DOMAIN results :
              results[i].success =>
                  /\ JpegPath(heic_files[i]) \in DOMAIN fs
                  /\ fs[JpegPath(heic_files[i])].kind = "file"
        /\ \A i \in DOMAIN heic_files :
              (/\ JpegPath(heic_files[i]) \in DOMAIN fs
               /\ fs[JpegPath(heic_files[i])].from = JpegData(heic_files[i])) =>
                  (i \in DOMAIN results /\ results[i].success)

\* C13: the create-if-absent step of line 63 fails in no worker because of
\* another worker: whatever the interleaving of the system calls of tasks
\* that share a target directory or missing ancestors of it, the step fails
\* in a task only when something that is no directory stood on the path of
\* its target directory before the call.
C13_SharedMkdirNeverFails ==
    \A i \in DOMAIN st :
        local[i].e = MkdirError => MkdirFails(fs0, TargetDir(heic_files[i]))

\* two tasks with the same target directory, absent with its parent when the
\* call began, both found the parent missing at their first try and both got
\* past line 63
C13_Witness ==
    \E i, j \in DOMAIN st :
        /\ i # j
        /\ TargetDir(heic_files[i]) = TargetDir(heic_files[j])
        /\ ~Exists(fs0, Parent(TargetDir(heic_files[i])))
        /\ ~local[i].parents /\ ~local[j].parents
        /\ st[i] \in {"open", "save"} /\ st[j] \in {"open", "save"}

\* C14: when two valid enumerated files have the same output path, then
\* after the batch both tasks have returned an outcome and the file at that
\* path is the complete output of exactly one of the two, never a mixture of
\* the blocks of both, whatever the interleaving of their write steps.
C14_SamePathOneCompleteOutput ==
    \A i, j \in DOMAIN heic_files :
        (/\ Ended
         /\ i # j
         /\ JpegPath(heic_files[i]) = JpegPath(heic_files[j])
         /\ Valid(i) /\ Valid(j)) =>
            /\ st[i] = "returned" /\ st[j] = "returned"
            /\ fs[JpegPath(heic_files[i])].from \in
                  {JpegData(heic_files[i]), JpegData(heic_files[j])}

\* no call of convert_single_heic has ended with an exception
EveryCallReturns == \A i \in DOMAIN st : st[i] # "raised"

\* every enumerated task was started and has finished, and its outcome is
\* collected
AllCollected ==
    /\ Len(results) = Len(heic_files)
    /\ \A i \in DOMAIN heic_files : st[i] = "returned"

\* C15: the final summary is produced only after all N outcomes have been
\* collected; and under fair scheduling, in every run in which every
\* conversion call returns, the batch eventually ends, with every enumerated
\* task started and finished.
C15_BatchTerminates ==
    /\ [](pc = "done" => AllCollected)
    /\ ([]EveryCallReturns) => <>(Ended /\ (heic_files # <<>> => (pc = "done" /\ AllCollected)))

C15_Witness ==
    /\ pc = "done"
    /\ Len(heic_files) >= 2
    /\ AllCollected
    /\ max_workers = 1
    /\ summary.found = Len(heic_files)

\* C16: the pool size is min(32, c) for a known core count c and 4 for an
\* undetermined one (c = 0 here), so the size of a started pool lies in
\* 1..32; and at every moment the number of tasks in progress is at most the
\* pool size, however many files were enumerated.
C16_PoolSizeBoundsTasks ==
    /\ \A c \in CpuCounts :
          PoolSize(c) = (IF c = 0 THEN 4 ELSE IF c <= 32 THEN c ELSE 32)
    /\ st # <<>> =>
          /\ max_workers \in 1..32
          /\ \E c \in CpuCounts : max_workers = (IF c = 0 THEN 4 ELSE IF c <= 32 THEN c ELSE 32)
    /\ Cardinality(Running) <= max_workers

\* a pool of one thread is busy while a second file waits for it
C16_Witness ==
    /\ max_workers = 1
    /\ Cardinality(Running) = 1
    /\ \E i \in DOMAIN st : st[i] = "pending"

\* the output path the claim C17 gives for the file p of the output
\* directory: output root, output folder name, the relative directory of p
\* inside the output directory, stem.jpg
NestedPath(p) ==
    LET inside == SubSeq(p, Len(output_dir) + 1, Len(p))
    IN  output_dir \o <<output_folder>> \o Parent(inside) \o <<Name(Last(inside).stem, jpg)>>

\* C17: the enumeration does not leave out the output directory: every file
\* inside it with the source extension is enumerated; and the task of such a
\* file, when it succeeds, has written its output to the nested path.
C17_OutputDirIsScanned ==
    /\ pc = "found" =>
          \A p \in DOMAIN fs :
              (/\ Under(p, output_dir) /\ Len(p) > Len(output_dir)
               /\ fs[p].kind = "file"
               /\ HasHeicExtension(Last(p))) => p \in Range(heic_files)
    /\ \A i \in DOMAIN st :
          (/\ Under(heic_files[i], output_dir)
           /\ st[i] = "returned"
           /\ outcome[i].success) =>
              /\ NestedPath(heic_files[i]) \in DOMAIN fs
              /\ fs[NestedPath(heic_files[i])].from = JpegData(heic_files[i])

C17_Witness ==
    \E i \in DOMAIN results :
        /\ Under(heic_files[i], output_dir)
        /\ results[i].success
        /\ NestedPath(heic_files[i]) \in DOMAIN fs \ DOMAIN fs0
        /\ pc = "done"

\* the files the call has created
Written == {p \in DOMAIN fs \ DOMAIN fs0 : fs[p].kind = "file"}

\* C18 as stated: two distinct enumerated files never get the same output
\* path, and after the summary the number of output files written is the
\* number of successful outcomes.
C18_TargetsInjective ==
    /\ \A i, j \in DOMAIN heic_files :
          i # j => JpegPath(heic_files[i]) # JpegPath(heic_files[j])
    /\ pc = "done" => Cardinality(Written) = Cardinality(Successes(results))

\* C18, amended: two distinct files of the list just enumerated get the same
\* output path exactly when they lie in the same directory and have the same
\* stem (their names differ in the extension only, as a.heic and a.HEIC);
\* after the
\* summary the number of output files written is the number of distinct
\* pairs (directory, stem) among the files with a successful outcome.
C18_SamePathIffSameDirAndStem ==
    /\ pc = "found" =>
          \A i, j \in DOMAIN heic_files :
              i # j =>
                  (JpegPath(heic_files[i]) = JpegPath(heic_files[j])
                      <=> /\ Parent(heic_files[i]) = Parent(heic_files[j])
                          /\ Last(heic_files[i]).stem = Last(heic_files[j]).stem)
    /\ pc = "done" =>
          Cardinality(Written) =
              Cardinality({<<Parent(heic_files[i]), Last(heic_files[i]).stem>> :
                              i \in Successes(results)})

\* two files with successful outcomes, one output file
C18_Witness ==
    /\ pc = "done"
    /\ Cardinality(Successes(results)) = 2
    /\ Cardinality(Written) = 1
    /\ \E i, j \in DOMAIN heic_files :
          i # j /\ JpegPath(heic_files[i]) = JpegPath(heic_files[j])

\* C19: the collected outcomes are in the order of the enumeration, whatever
\* the order in which the workers finish: at every moment the i-th collected
\* outcome is the one returned by the task of the i-th enumerated file and
\* carries that file's name.
C19_CollectedInEnumerationOrder ==
    \A i \in DOMAIN results :
        /\ results[i] = outcome[i]
        /\ results[i].name = Last(heic_files[i])
        /\ st[i] = "returned"

\* the task of the second file has finished before the task of the first
\* file, whose name is another: the main thread, having collected nothing,
\* waits for the first
C19_Witness ==
    /\ Len(st) >= 2
    /\ st[2] = "returned"
    /\ st[1] \in Active
    /\ Last(heic_files[1]) # Last(heic_files[2])
    /\ outcome[2].success
    /\ results = <<>>
    /\ pc = "collect"

====
